---- MODULE Spec2Model ----
(***************************************************************************)
(* PluginManager (memo-plugin-manager): the local plugin registry, its     *)
(* on-disk files, install / upgrade / uninstall / saveConfiguration, the   *)
(* start-up load with its reconciliation pass, the online catalog fetch    *)
(* and the plugin loader.                                                  *)
(*                                                                         *)
(* Modelling conventions                                                   *)
(*   - a file is <<>> when it does not exist and <<content>> when it does; *)
(*   - a JS object used as a map is a function whose DOMAIN is its keys;   *)
(*   - the template string `${pluginId}@${version}` is the pair            *)
(*     <<pluginId, version>> (configuration keys and folder names);        *)
(*   - a version string "n.0.0" is the natural number n;                   *)
(*   - the mutating calls are serialized by the caller (spec section 5),   *)
(*     so each call is one action.                                         *)
(***************************************************************************)
EXTENDS Naturals, Integers, Sequences, FiniteSets, TLC

VARIABLES
    \* ---- disk, under this.location
    indexJson,                  \* index.json: the Local Catalog
    configurationJson,          \* configuration.json: the Configuration Store
    pluginsJson,                \* plugins.json: the cached Online Catalog
    folders,                    \* sub-folders of location: name -> content
    \* ---- disk, under this.presetLocation
    presetFiles,                \* the *.memox archives, in readdir order
    \* ---- the PluginManager object
    phase,                      \* "stopped" | "ready" | "failed" (_init rejected)
    localPlugins,
    installedPlugins,
    installedPluginsManifests,
    installedPluginsI18ns,
    pluginsConfigurations,
    pluginProviders,
    importedPlugins,
    onlinePlugins,
    pendingFetch,               \* the getOnlinePlugins promise of _readLocalPlugins
    evaluations,                \* entry file -> times its script ran in this process
    pluginsCache,               \* the Runtime Cache: pluginId -> key -> value
    globalPluginCache,          \* the pluginId global.pluginCache is bound to
    loaded,                     \* pluginId -> importType of the instance the host holds
    cacheJson,                  \* cache.json, under this.location
    presetPluginsJson,          \* plugins.json under presetLocation: the bundled snapshot
    pendingCopy,                \* the copyFile promise of _readLocalPlugins
    installPromise,             \* the promise of the last installOnlinePlugins call
    downloading,                \* <<archive>> while downloadFile runs, else <<>>
    \* ---- observation of the last call (arguments, pre-state facts, result)
    last,
    steps                       \* the number of steps taken, for the bound

vars == <<indexJson, configurationJson, pluginsJson, folders, presetFiles,
          phase, localPlugins, installedPlugins, installedPluginsManifests,
          installedPluginsI18ns, pluginsConfigurations, pluginProviders,
          importedPlugins, onlinePlugins, pendingFetch, evaluations,
          pluginsCache, globalPluginCache, loaded, cacheJson,
          presetPluginsJson, pendingCopy, installPromise, downloading, last, steps>>

disk == <<indexJson, configurationJson, pluginsJson, folders, presetFiles>>

snapshot == <<presetPluginsJson, pendingCopy>>

download == <<installPromise, downloading>>

runtimeCache == <<pluginsCache, globalPluginCache, loaded, cacheJson>>

registry == <<localPlugins, installedPlugins, installedPluginsManifests,
              installedPluginsI18ns, pluginsConfigurations, pluginProviders>>

-----------------------------------------------------------------------------
(* Bounds *)

MaxVersion == 2             \* versions 1..MaxVersion of plugin "p" exist as archives
MaxEvaluations == 2         \* evaluations of one entry script that are counted
MaxSteps == 5               \* length of the behaviours explored

-----------------------------------------------------------------------------
(* Generic helpers for JS objects and files *)

EmptyObject == [k \in {} |-> 0]

Put(f, k, v) == [x \in DOMAIN f \cup {k} |-> IF x = k THEN v ELSE f[x]]

Delete(f, k) == [x \in DOMAIN f \ {k} |-> f[x]]

NoFile == <<>>

File(content) == <<content>>

existsSync(file) == file # NoFile

readFileSync(file) == file[1]

\* Array.prototype.findIndex: the first index satisfying the test, 0 for JS -1
findIndex(list, pluginId) ==
    IF \E i \in 1..Len(list) : list[i].pluginId = pluginId
    THEN CHOOSE i \in 1..Len(list) :
            /\ list[i].pluginId = pluginId
            /\ \A j \in 1..(i - 1) : list[j].pluginId # pluginId
    ELSE 0

\* Array.prototype.splice(index, 1)
spliceOut(list, i) == SubSeq(list, 1, i - 1) \o SubSeq(list, i + 1, Len(list))

\* Array.prototype.unshift
unshift(list, item) == <<item>> \o list

-----------------------------------------------------------------------------
(* Versions, manifests, archives *)

PluginIds == {"p", "q"}

Versions == 1..MaxVersion

\* compare-versions: 1, 0 or -1
compareVersions(a, b) == IF a > b THEN 1 ELSE IF a < b THEN -1 ELSE 0

\* `${pluginId}@${version}`
VersionedName(pluginId, version) == <<pluginId, version>>

Undefined == "undefined"

TypeOf(pluginId) == IF pluginId = "p" THEN "translate" ELSE "tts"

\* The inherit declarations of the manifests: version 1 of "p" inherits "a"
\* from host and "b" from a path the host settings do not have; later
\* versions inherit "a" and "b" and declare "c" without inherit; "q" declares
\* no configuration.
ConfigurationOf(pluginId, version) ==
    IF pluginId = "q" THEN <<>>
    ELSE IF version = 1
         THEN <<[key |-> "a", inherit |-> <<"host">>],
                [key |-> "b", inherit |-> <<"nested", "host">>]>>
         ELSE <<[key |-> "a", inherit |-> <<"host">>],
                [key |-> "b", inherit |-> <<"nested", "port">>],
                [key |-> "c", inherit |-> <<>>]>>

\* manifest.json of the archive of pluginId@version. Version 1 of "p" is a
\* sandbox plugin, later versions are module plugins with another provider.
ManifestOf(pluginId, version) ==
    [pluginId      |-> pluginId,
     version       |-> version,
     type          |-> TypeOf(pluginId),
     importType    |-> IF pluginId = "p" /\ version = 1 THEN "sandbox" ELSE "module",
     provider      |-> [value |-> pluginId, label |-> version],
     configuration |-> ConfigurationOf(pluginId, version)]

\* An archive: its manifest.json (absent in a broken archive) and i18n.json
Archive(pluginId, version) ==
    [manifest |-> File(ManifestOf(pluginId, version)),
     i18n     |-> IF pluginId = "p" THEN File("bundle") ELSE NoFile]

BrokenArchive == [manifest |-> NoFile, i18n |-> NoFile]

\* An archive whose manifest.json has no pluginId: data.pluginId is undefined,
\* which every template string and every property key turns into "undefined"
NamelessArchive ==
    [manifest |-> File([ManifestOf("q", 1) EXCEPT !.pluginId = Undefined]),
     i18n     |-> NoFile]

Archives == {Archive("p", v) : v \in Versions} \cup {Archive("q", 1), BrokenArchive}

\* the archives of the runs about failing install attempts
AttemptedArchives == Archives \cup {NamelessArchive}

DefaultI18n == "empty"

EmptyCatalog == [plugins |-> <<>>, versions |-> EmptyObject]

-----------------------------------------------------------------------------
(* JSON.stringify / JSON.parse of the persisted stores *)

\* JSON.stringify omits the properties of an object whose value is undefined
StringifyObject(config) ==
    [k \in {x \in DOMAIN config : config[x] # Undefined} |-> config[k]]

\* the text of configuration.json for a Configuration Store, parsed back
StringifyConfigurations(configurations) ==
    [key \in DOMAIN configurations |-> StringifyObject(configurations[key])]

\* the text of index.json for a catalog, parsed back: every descriptor field
\* and every version is a defined string, so nothing is dropped
StringifyCatalog(catalog) ==
    [plugins |-> catalog.plugins, versions |-> catalog.versions]

-----------------------------------------------------------------------------
(* Host settings and getValueFromJSON *)

SettingNames == {"none", "full"}

JsonString(s) == [kind |-> "string", str |-> s]

JsonObject(fields) == [kind |-> "object", fields |-> fields]

JsonUndefined == [kind |-> "undefined"]

\* the `setting` argument of installPlugins: omitted, or
\* {host: "h", nested: {port: "n"}}
HostSetting(name) ==
    CASE name = "none" -> JsonUndefined
      [] name = "full" -> JsonObject([host   |-> JsonString("h"),
                                      nested |-> JsonObject([port |-> JsonString("n")])])

RECURSIVE WalkPath(_, _)
WalkPath(current, keys) ==
    IF keys = <<>> THEN current
    ELSE IF current.kind = "object" /\ Head(keys) \in DOMAIN current.fields
         THEN WalkPath(current.fields[Head(keys)], Tail(keys))
         ELSE JsonUndefined

\* getValueFromJSON(json, valuePath); valuePath is given split at the dots.
\* A leaf yields its string, a missing level yields undefined.
getValueFromJSON(json, valuePath) ==
    LET found == WalkPath(json, valuePath)
    IN  IF found.kind = "string" THEN found.str
        ELSE IF found.kind = "undefined" THEN Undefined
        ELSE "[object]"

\* installPlugins, the forEach over data.configuration: the inherited values
InheritConfiguration(manifest, setting) ==
    LET fields == manifest.configuration
        inheriting == {i \in 1..Len(fields) : fields[i].inherit # <<>>}
        \* a later field with the same key overwrites an earlier one
        lastOf(k) == CHOOSE i \in inheriting :
                        /\ fields[i].key = k
                        /\ \A j \in inheriting : fields[j].key = k => j <= i
    IN  [k \in {fields[i].key : i \in inheriting} |->
            getValueFromJSON(setting, fields[lastOf(k)].inherit)]

\* SpreadMerge with the operands swapped: { ...old, ...inherited }
SpreadMerge_InheritedWins(inherited, old) ==
    [k \in DOMAIN inherited \cup DOMAIN old |->
        IF k \in DOMAIN inherited THEN inherited[k] ELSE old[k]]

\* { ...inherited, ...old }: the keys of both, the right operand winning
SpreadMerge(inherited, old) ==
    [k \in DOMAIN inherited \cup DOMAIN old |->
        IF k \in DOMAIN old THEN old[k] ELSE inherited[k]]

-----------------------------------------------------------------------------
(* Descriptors and providers *)

\* the Plugin literal built from a manifest (installPlugins and
\* _installDefaultPlugins build the same one)
PluginOf(manifest) ==
    [file     |-> VersionedName(manifest.pluginId, manifest.version),
     pluginId |-> manifest.pluginId,
     version  |-> manifest.version,
     type     |-> manifest.type]

\* { ...manifest.provider, pluginId, type }
ProviderOf(manifest, plugin) ==
    [value    |-> manifest.provider.value,
     label    |-> manifest.provider.label,
     pluginId |-> plugin.pluginId,
     type     |-> plugin.type]

\* i18n.json of a folder, or the empty bundle
ReadI18n(dirs, name) ==
    IF name \in DOMAIN dirs /\ existsSync(dirs[name].i18n)
    THEN readFileSync(dirs[name].i18n)
    ELSE DefaultI18n

\* getAllData: the snapshot is the live registry objects
Snapshot == "snapshot"

-----------------------------------------------------------------------------
(* Folders under location *)

\* every step counts against the bound on the length of a behaviour
Tick == steps < MaxSteps /\ steps' = steps + 1

AllFiles == {VersionedName(id, v) : id \in PluginIds, v \in Versions}

\* unzip / fs-extra copy of an archive's files into the folder `name`: the
\* files of the archive overwrite, files only the folder has stay
ExtractInto(dirs, name, archive) ==
    Put(dirs, name,
        [manifest |-> IF existsSync(archive.manifest) THEN archive.manifest
                      ELSE IF name \in DOMAIN dirs THEN dirs[name].manifest
                      ELSE NoFile,
         i18n     |-> IF existsSync(archive.i18n) THEN archive.i18n
                      ELSE IF name \in DOMAIN dirs THEN dirs[name].i18n
                      ELSE NoFile])

\* copyFolder(source, destination): an error of fs-extra's copy is caught and
\* logged, and the destination is then left as it was
copyFolder(dirs, archive, destination, copied) ==
    IF copied THEN ExtractInto(dirs, destination, archive) ELSE dirs

\* removeFolder(folderPath)
removeFolder(dirs, name) == Delete(dirs, name)

-----------------------------------------------------------------------------
(* installPlugins *)

\* PlaceDescriptor without the findIndex test: always prepend
PlaceDescriptor_Prepend(plugins, plugin) == unshift(plugins, plugin)

\* lines 333-341: replace the descriptor of the pluginId in place, else prepend
PlaceDescriptor(plugins, plugin) ==
    LET pluginIndex == findIndex(plugins, plugin.pluginId)
    IN  IF pluginIndex >= 1
        THEN [plugins EXCEPT ![pluginIndex] = plugin]
        ELSE unshift(plugins, plugin)

\* lines 334-338: the configuration saved for the descriptor being replaced
OldPluginsConfigurations(plugins, configurations, pluginId) ==
    LET pluginIndex == findIndex(plugins, pluginId)
        oldPlugin   == plugins[pluginIndex]
        oldKey      == VersionedName(oldPlugin.pluginId, oldPlugin.version)
    IN  IF pluginIndex >= 1 /\ oldKey \in DOMAIN configurations
        THEN configurations[oldKey]
        ELSE EmptyObject

\* lines 356-363: a provider is pushed only when the pluginId has none yet
PushProvider(providers, manifest, plugin) ==
    IF findIndex(providers, plugin.pluginId) < 1
    THEN Append(providers, ProviderOf(manifest, plugin))
    ELSE providers

\* The version recorded for a pluginId in a catalog, 0 when it has none
VersionIn(catalog, pluginId) ==
    IF pluginId \in DOMAIN catalog.versions THEN catalog.versions[pluginId] ELSE 0

NotCopying == "none"

NoPromise == "none"

\* lines 302-369: what one run of installPlugins does to the disk and the
\* registry, and what it returns
installPluginsBody(archive, settingName, copied) ==
    /\ IF ~existsSync(archive.manifest)
       THEN \* findFileInFolder resolves false: the function returns undefined
            /\ last' = [op |-> "installPlugins", found |-> FALSE,
                        result |-> Undefined, writes |-> {}]
            /\ UNCHANGED <<disk, registry>>
       ELSE LET data      == readFileSync(archive.manifest)
                plugin    == PluginOf(data)
                dest      == VersionedName(data.pluginId, data.version)
                dirs      == copyFolder(folders, archive, dest, copied)
                i18n      == ReadI18n(dirs, dest)
                old       == OldPluginsConfigurations(localPlugins.plugins,
                                 pluginsConfigurations, plugin.pluginId)
                inherited == InheritConfiguration(data, HostSetting(settingName))
                catalog   == [plugins  |-> PlaceDescriptor(localPlugins.plugins, plugin),
                              versions |-> Put(localPlugins.versions,
                                               plugin.pluginId, plugin.version)]
                configs   == Put(pluginsConfigurations, dest,
                                 SpreadMerge(inherited, old))
            IN  /\ folders' = dirs
                /\ localPlugins' = catalog
                /\ installedPlugins' = Put(installedPlugins, plugin.pluginId, plugin)
                /\ installedPluginsManifests' =
                       Put(installedPluginsManifests, plugin.pluginId, data)
                /\ installedPluginsI18ns' =
                       Put(installedPluginsI18ns, plugin.pluginId, i18n)
                /\ pluginsConfigurations' = configs
                /\ pluginProviders' = PushProvider(pluginProviders, data, plugin)
                /\ indexJson' = File(StringifyCatalog(catalog))
                /\ configurationJson' = File(StringifyConfigurations(configs))
                /\ last' = [op |-> "installPlugins", found |-> TRUE,
                            pluginId |-> plugin.pluginId,
                            version  |-> plugin.version,
                            previous |-> VersionIn(localPlugins, plugin.pluginId),
                            settingName |-> settingName,
                            before   |-> pluginsConfigurations,
                            result |-> Snapshot,
                            writes |-> {"index.json", "configuration.json"}]
                /\ UNCHANGED <<pluginsJson, presetFiles>>

installPlugins(archive, settingName, copied) ==
    /\ Tick
    /\ UNCHANGED <<snapshot, download>>
    /\ phase = "ready"
    /\ installPluginsBody(archive, settingName, copied)
    /\ UNCHANGED <<phase, importedPlugins, onlinePlugins, pendingFetch, evaluations,
                   runtimeCache>>

-----------------------------------------------------------------------------
(* uninstallPlugin *)

\* RemoveDescriptor without the index test: splice(-1, 1) removes the last item
RemoveDescriptor_Unguarded(plugins, pluginId) ==
    LET index == findIndex(plugins, pluginId)
    IN  IF index >= 1 THEN spliceOut(plugins, index)
        ELSE SubSeq(plugins, 1, Len(plugins) - 1)

\* lines 374-379: splice the descriptor of the pluginId out of the list
RemoveDescriptor(plugins, pluginId) ==
    LET index == findIndex(plugins, pluginId)
    IN  IF index >= 1 THEN spliceOut(plugins, index) ELSE plugins

\* DeleteConfiguration without the delete
DeleteConfiguration_Keep(configurations, plugins, pluginId) == configurations

\* lines 384-386: delete the configuration of the deleted descriptor
DeleteConfiguration(configurations, plugins, pluginId) ==
    LET index == findIndex(plugins, pluginId)
    IN  IF index >= 1
        THEN Delete(configurations,
                    VersionedName(plugins[index].pluginId, plugins[index].version))
        ELSE configurations

\* lines 387-390: splice the first provider of the pluginId out
RemoveProvider(providers, pluginId) ==
    LET i == findIndex(providers, pluginId)
    IN  IF i >= 1 THEN spliceOut(providers, i) ELSE providers

\* UninstallWrites leaving configuration.json as it was
UninstallWrites_IndexOnly(deleted) == {"index.json"}

\* lines 391-392: both files are written whether or not a plugin was deleted
UninstallWrites(deleted) == {"index.json", "configuration.json"}

uninstallPlugin(pluginId) ==
    /\ Tick
    /\ UNCHANGED <<snapshot, download>>
    /\ phase = "ready"
    /\ LET list    == localPlugins.plugins
           index   == findIndex(list, pluginId)
           deleted == index >= 1
           catalog == [plugins  |-> RemoveDescriptor(list, pluginId),
                       versions |-> Delete(localPlugins.versions, pluginId)]
           configs == DeleteConfiguration(pluginsConfigurations, list, pluginId)
           writes  == UninstallWrites(deleted)
       IN  /\ localPlugins' = catalog
           /\ installedPlugins' = Delete(installedPlugins, pluginId)
           /\ installedPluginsManifests' = Delete(installedPluginsManifests, pluginId)
           /\ installedPluginsI18ns' = Delete(installedPluginsI18ns, pluginId)
           /\ pluginsConfigurations' = configs
           /\ pluginProviders' = RemoveProvider(pluginProviders, pluginId)
           /\ indexJson' = IF "index.json" \in writes
                           THEN File(StringifyCatalog(catalog)) ELSE indexJson
           /\ configurationJson' = IF "configuration.json" \in writes
                                   THEN File(StringifyConfigurations(configs))
                                   ELSE configurationJson
           /\ folders' = IF deleted
                         THEN removeFolder(folders,
                                  VersionedName(list[index].pluginId, list[index].version))
                         ELSE folders
           /\ last' = [op |-> "uninstallPlugin", pluginId |-> pluginId,
                       installed |-> deleted,
                       version |-> IF deleted THEN list[index].version ELSE 0,
                       result |-> Snapshot, writes |-> writes]
    /\ UNCHANGED <<pluginsJson, presetFiles, phase, importedPlugins, onlinePlugins,
                   pendingFetch, evaluations, runtimeCache>>

-----------------------------------------------------------------------------
(* installPlugins and uninstallPlugin when a write throws *)

Rejected == "rejected"

Stopped == "stopped"

\* installPlugins when the writeFileSync of configuration.json (line 365)
\* throws: the registry objects are already mutated and index.json is already
\* written (line 364); the promise rejects
installPluginsWriteThrows(archive, settingName) ==
    /\ Tick
    /\ UNCHANGED <<snapshot, download>>
    /\ phase = "ready"
    /\ existsSync(archive.manifest)
    /\ LET data      == readFileSync(archive.manifest)
           plugin    == PluginOf(data)
           dest      == VersionedName(data.pluginId, data.version)
           dirs      == copyFolder(folders, archive, dest, TRUE)
           old       == OldPluginsConfigurations(localPlugins.plugins,
                            pluginsConfigurations, plugin.pluginId)
           inherited == InheritConfiguration(data, HostSetting(settingName))
           catalog   == [plugins  |-> PlaceDescriptor(localPlugins.plugins, plugin),
                         versions |-> Put(localPlugins.versions,
                                          plugin.pluginId, plugin.version)]
       IN  /\ folders' = dirs
           /\ localPlugins' = catalog
           /\ installedPlugins' = Put(installedPlugins, plugin.pluginId, plugin)
           /\ installedPluginsManifests' =
                  Put(installedPluginsManifests, plugin.pluginId, data)
           /\ installedPluginsI18ns' =
                  Put(installedPluginsI18ns, plugin.pluginId, ReadI18n(dirs, dest))
           /\ pluginsConfigurations' =
                  Put(pluginsConfigurations, dest, SpreadMerge(inherited, old))
           /\ pluginProviders' = PushProvider(pluginProviders, data, plugin)
           /\ indexJson' = File(StringifyCatalog(catalog))
           /\ last' = [op |-> "installPlugins", found |-> TRUE,
                       pluginId |-> plugin.pluginId,
                       version  |-> plugin.version,
                       previous |-> VersionIn(localPlugins, plugin.pluginId),
                       settingName |-> settingName,
                       before   |-> pluginsConfigurations,
                       files    |-> [index |-> indexJson,
                                     configuration |-> configurationJson],
                       result |-> Rejected,
                       writes |-> {"index.json"}]
    /\ UNCHANGED <<configurationJson, pluginsJson, presetFiles, phase, importedPlugins,
                   onlinePlugins, pendingFetch, evaluations, runtimeCache>>

\* uninstallPlugin when the writeFileSync of configuration.json (line 392)
\* throws: index.json is already written (line 391), the folder is not
\* removed (lines 393-395 are not reached); the promise rejects
uninstallPluginWriteThrows(pluginId) ==
    /\ Tick
    /\ UNCHANGED <<snapshot, download>>
    /\ phase = "ready"
    /\ LET list    == localPlugins.plugins
           index   == findIndex(list, pluginId)
           deleted == index >= 1
           catalog == [plugins  |-> RemoveDescriptor(list, pluginId),
                       versions |-> Delete(localPlugins.versions, pluginId)]
       IN  /\ localPlugins' = catalog
           /\ installedPlugins' = Delete(installedPlugins, pluginId)
           /\ installedPluginsManifests' = Delete(installedPluginsManifests, pluginId)
           /\ installedPluginsI18ns' = Delete(installedPluginsI18ns, pluginId)
           /\ pluginsConfigurations' =
                  DeleteConfiguration(pluginsConfigurations, list, pluginId)
           /\ pluginProviders' = RemoveProvider(pluginProviders, pluginId)
           /\ indexJson' = File(StringifyCatalog(catalog))
           /\ last' = [op |-> "uninstallPlugin", pluginId |-> pluginId,
                       installed |-> deleted,
                       version |-> IF deleted THEN list[index].version ELSE 0,
                       files   |-> [index |-> indexJson,
                                    configuration |-> configurationJson],
                       result |-> Rejected, writes |-> {"index.json"}]
    /\ UNCHANGED <<configurationJson, folders, pluginsJson, presetFiles, phase,
                   importedPlugins, onlinePlugins, pendingFetch, evaluations, runtimeCache>>

-----------------------------------------------------------------------------
(* saveConfiguration *)

SavedConfigurations == {("a" :> "u")}

\* SetConfiguration without the test of line 402: an entry is set for a
\* pluginId that is not installed too
SetConfiguration_Unguarded(configurations, installed, pluginId, data) ==
    Put(configurations,
        VersionedName(pluginId,
                      IF pluginId \in DOMAIN installed
                      THEN installed[pluginId].version ELSE 1),
        data)

\* SetConfiguration merging the data over the previous value of the entry
SetConfiguration_Merged(configurations, installed, pluginId, data) ==
    IF pluginId \in DOMAIN installed
    THEN LET key == VersionedName(pluginId, installed[pluginId].version)
         IN  Put(configurations, key,
                 IF key \in DOMAIN configurations
                 THEN SpreadMerge(configurations[key], data) ELSE data)
    ELSE configurations

\* lines 402-403: the entry of the installed version is assigned the data
SetConfiguration(configurations, installed, pluginId, data) ==
    IF pluginId \in DOMAIN installed
    THEN Put(configurations,
             VersionedName(pluginId, installed[pluginId].version), data)
    ELSE configurations

saveConfiguration(pluginId, data) ==
    /\ Tick
    /\ UNCHANGED <<snapshot, download>>
    /\ phase = "ready"
    /\ IF pluginId \in DOMAIN installedPlugins
       THEN LET configs == SetConfiguration(pluginsConfigurations, installedPlugins,
                                            pluginId, data)
            IN  /\ pluginsConfigurations' = configs
                /\ configurationJson' = File(StringifyConfigurations(configs))
                /\ last' = [op |-> "saveConfiguration", pluginId |-> pluginId,
                            installed |-> TRUE, data |-> data,
                            before |-> pluginsConfigurations,
                            result |-> Snapshot, writes |-> {"configuration.json"}]
       ELSE /\ pluginsConfigurations' = SetConfiguration(pluginsConfigurations,
                                           installedPlugins, pluginId, data)
            /\ UNCHANGED configurationJson
            /\ last' = [op |-> "saveConfiguration", pluginId |-> pluginId,
                        installed |-> FALSE, data |-> data,
                        before |-> pluginsConfigurations,
                        result |-> Snapshot, writes |-> {}]
    /\ UNCHANGED <<indexJson, pluginsJson, folders, presetFiles, phase, localPlugins,
                   installedPlugins, installedPluginsManifests, installedPluginsI18ns,
                   pluginProviders, importedPlugins, onlinePlugins, pendingFetch,
                   evaluations, runtimeCache>>

-----------------------------------------------------------------------------
(* getOnlinePlugins, refreshOnlinePlugins *)

\* The remote catalog's plugin list
RemotePlugins == <<PluginOf(ManifestOf("q", 1)), PluginOf(ManifestOf("p", MaxVersion))>>

\* What axios.get does: "ok" resolves with {success: true, data: RemotePlugins},
\* "unsuccessful" resolves with a body that is no successful catalog,
\* "error" rejects (transport error, timeout, HTTP error status)
FetchOutcomes == {"ok", "unsuccessful", "error"}

\* VersionsOf giving every pluginId the version of the first plugin of the list
VersionsOf_ByIndex(plugins) ==
    [id \in {plugins[i].pluginId : i \in 1..Len(plugins)} |->
        plugins[1].version]

\* lines 277-281: versions[plugin.pluginId] = plugin.version over the list
VersionsOf(plugins) ==
    [id \in {plugins[i].pluginId : i \in 1..Len(plugins)} |->
        plugins[CHOOSE i \in 1..Len(plugins) :
                    /\ plugins[i].pluginId = id
                    /\ \A j \in 1..Len(plugins) : plugins[j].pluginId = id => j <= i
               ].version]

\* getOnlinePlugins: whether the promise rejects, the value it resolves with
\* and plugins.json afterwards. The await of axios.get has no try/catch, so
\* its rejection is the rejection of getOnlinePlugins.
getOnlinePlugins(outcome, cache) ==
    IF outcome = "error"
    THEN [rejected |-> TRUE, value |-> EmptyCatalog, pluginsJson |-> cache]
    ELSE IF outcome = "ok"
    THEN LET data == [plugins |-> RemotePlugins, versions |-> VersionsOf(RemotePlugins)]
         IN  [rejected |-> FALSE, value |-> data,
              pluginsJson |-> File(StringifyCatalog(data))]
    ELSE IF existsSync(cache)
    THEN [rejected |-> FALSE, value |-> readFileSync(cache), pluginsJson |-> cache]
    ELSE [rejected |-> FALSE, value |-> EmptyCatalog, pluginsJson |-> cache]

\* a direct call of the public getOnlinePlugins
callGetOnlinePlugins(outcome) ==
    /\ Tick
    /\ UNCHANGED <<snapshot, download>>
    /\ phase = "ready"
    /\ LET res == getOnlinePlugins(outcome, pluginsJson)
       IN  /\ pluginsJson' = res.pluginsJson
           /\ last' = [op |-> "getOnlinePlugins", outcome |-> outcome,
                       cache |-> pluginsJson,
                       rejected |-> res.rejected, value |-> res.value]
    /\ UNCHANGED <<indexJson, configurationJson, folders, presetFiles, phase, registry,
                   importedPlugins, onlinePlugins, pendingFetch, evaluations, runtimeCache>>

refreshOnlinePlugins(outcome) ==
    /\ Tick
    /\ UNCHANGED <<snapshot, download>>
    /\ phase = "ready"
    /\ LET res == getOnlinePlugins(outcome, pluginsJson)
       IN  /\ pluginsJson' = res.pluginsJson
           /\ onlinePlugins' = IF res.rejected THEN onlinePlugins ELSE res.value
           /\ last' = [op |-> "refreshOnlinePlugins", outcome |-> outcome,
                       cache |-> pluginsJson,
                       rejected |-> res.rejected, value |-> res.value]
    /\ UNCHANGED <<indexJson, configurationJson, folders, presetFiles, phase, registry,
                   importedPlugins, pendingFetch, evaluations, runtimeCache>>

\* the fetch started by _readLocalPlugins settles: .then sets onlinePlugins,
\* a rejection has no handler
startupFetchSettles(outcome) ==
    /\ Tick
    /\ UNCHANGED <<snapshot, download>>
    /\ pendingFetch
    /\ pendingCopy # "skipped"
    /\ LET res == getOnlinePlugins(outcome, pluginsJson)
       IN  /\ pluginsJson' = res.pluginsJson
           /\ onlinePlugins' = IF res.rejected THEN onlinePlugins ELSE res.value
           /\ last' = [op |-> "startupFetch", outcome |-> outcome,
                       cache |-> pluginsJson,
                       rejected |-> res.rejected, value |-> res.value]
    /\ pendingFetch' = FALSE
    /\ UNCHANGED <<indexJson, configurationJson, folders, presetFiles, phase, registry,
                   importedPlugins, evaluations, runtimeCache>>

-----------------------------------------------------------------------------
(* installOnlinePlugins *)

\* line 425: this.onlinePlugins.plugins.find(p => p.pluginId === pluginId),
\* as <<descriptor>>, or <<>> for undefined
FindOnline(plugins, pluginId) ==
    IF findIndex(plugins, pluginId) >= 1
    THEN <<plugins[findIndex(plugins, pluginId)]>>
    ELSE <<>>

\* downloadFile with the callbacks of installOnlinePlugins: "error" is axios
\* failing (errorCallback); otherwise the file is saved and the
\* completionCallback runs installPlugins on it: "completed" with the archive
\* of the listed version, "noManifest" with a file that holds no
\* manifest.json, "unzipThrows" with a file unzipFile rejects
DownloadOutcomes == {"error", "completed", "noManifest", "unzipThrows"}

\* lines 424-455: the promise is created; the download starts only when the
\* pluginId is listed, and there is no else branch
installOnlinePlugins(pluginId) ==
    /\ Tick
    /\ UNCHANGED snapshot
    /\ phase = "ready"
    /\ downloading = <<>>
    /\ installPromise' = "pending"
    /\ downloading' = FindOnline(onlinePlugins.plugins, pluginId)
    /\ last' = [op |-> "installOnlinePlugins", pluginId |-> pluginId,
                listed |-> FindOnline(onlinePlugins.plugins, pluginId) # <<>>]
    /\ UNCHANGED <<disk, phase, registry, importedPlugins, onlinePlugins,
                   pendingFetch, evaluations, runtimeCache>>

\* downloadFile settles. errorCallback rejects the promise (lines 446-448);
\* the completionCallback awaits installPlugins and resolves with
\* getAllData() whatever installPlugins returned (438-444); when the await
\* throws the async callback rejects unobserved and neither resolve nor
\* reject is called
downloadSettles(outcome) ==
    /\ Tick
    /\ UNCHANGED snapshot
    /\ phase = "ready"
    /\ downloading # <<>>
    /\ downloading' = <<>>
    /\ IF outcome = "completed"
       THEN /\ installPluginsBody(Archive(downloading[1].pluginId,
                                          downloading[1].version), "none", TRUE)
            /\ installPromise' = "resolved"
       ELSE IF outcome = "noManifest"
       THEN /\ installPluginsBody(BrokenArchive, "none", TRUE)
            /\ installPromise' = "resolved"
       ELSE /\ installPromise' = IF outcome = "error" THEN Rejected ELSE "pending"
            /\ last' = [op |-> "download", outcome |-> outcome]
            /\ UNCHANGED <<disk, registry>>
    /\ UNCHANGED <<phase, importedPlugins, onlinePlugins, pendingFetch, evaluations,
                   runtimeCache>>

-----------------------------------------------------------------------------
(* loadPlugin, _loadLocalPlugin *)

NotBound == "none"

\* line 535: global.pluginCache is the accessor made for this call's pluginId
BindGlobal(bound, pluginId) == pluginId

\* the object one evaluation of an entry script yields
Handle(file, instance) == [file |-> file, instance |-> instance]

\* line 538: the memoized handle is returned when there is one
IsMemoized(imported, pluginId) == pluginId \in DOMAIN imported

\* lines 544-587: a module plugin's handle is stored, a sandbox plugin's is not
Memoize(imported, manifest, pluginId, handle) ==
    IF manifest.importType = "module" THEN Put(imported, pluginId, handle)
    ELSE imported

loadPlugin(pluginId) ==
    /\ Tick
    /\ UNCHANGED <<snapshot, download>>
    /\ phase = "ready"
    /\ IF pluginId \notin DOMAIN installedPlugins
       THEN \* selectedPlugin is undefined: reading .file throws
            /\ last' = [op |-> "loadPlugin", pluginId |-> pluginId, threw |-> TRUE,
                        entryThrew |-> FALSE]
            /\ UNCHANGED <<importedPlugins, evaluations, globalPluginCache, loaded>>
       ELSE LET file == installedPlugins[pluginId].file
            IN  IF file \notin DOMAIN folders
                THEN \* readFileSync of the entry file throws
                     /\ last' = [op |-> "loadPlugin", pluginId |-> pluginId,
                                 threw |-> TRUE, entryThrew |-> FALSE]
                     /\ UNCHANGED <<importedPlugins, evaluations, globalPluginCache,
                                    loaded>>
                ELSE \* _loadLocalPlugin: line 535 rebinds global.pluginCache
                     \* before the memo test
                     /\ globalPluginCache' = BindGlobal(globalPluginCache, pluginId)
                     /\ loaded' = Put(loaded, pluginId,
                                      IF IsMemoized(importedPlugins, pluginId)
                                      THEN "module"
                                      ELSE installedPluginsManifests[pluginId].importType)
                     /\ IF IsMemoized(importedPlugins, pluginId)
                        THEN /\ last' = [op |-> "loadPlugin", pluginId |-> pluginId,
                                         threw |-> FALSE, entryThrew |-> FALSE,
                                         evaluated |-> FALSE,
                                         importType |->
                                             installedPluginsManifests[pluginId].importType,
                                         handle |-> importedPlugins[pluginId]]
                             /\ UNCHANGED <<importedPlugins, evaluations>>
                        ELSE LET handle == Handle(file, evaluations[file] + 1)
                             IN  /\ evaluations[file] < MaxEvaluations
                                 /\ evaluations' = [evaluations EXCEPT ![file] = @ + 1]
                                 /\ importedPlugins' =
                                        Memoize(importedPlugins,
                                                installedPluginsManifests[pluginId],
                                                pluginId, handle)
                                 /\ last' = [op |-> "loadPlugin", pluginId |-> pluginId,
                                             threw |-> FALSE, entryThrew |-> FALSE,
                                             evaluated |-> TRUE,
                                             importType |->
                                                 installedPluginsManifests[pluginId].importType,
                                             handle |-> handle]
    /\ UNCHANGED <<disk, phase, registry, onlinePlugins, pendingFetch, pluginsCache,
                   cacheJson>>

\* MemoizeThrown storing a handle although the entry script threw
MemoizeThrown_Stored(imported, manifest, pluginId, file) ==
    Put(imported, pluginId, Handle(file, 0))

\* lines 546-549 and 586: require or vm.run throws before anything is
\* assigned to importedPlugins
MemoizeThrown(imported, manifest, pluginId, file) == imported

\* loadPlugin of a plugin whose entry script throws while it is evaluated:
\* the error of require (line 546) or vm.run (line 586) propagates to the
\* caller. Node drops a module that threw from its require cache, so the
\* next require runs the script again.
loadPluginEntryThrows(pluginId) ==
    /\ Tick
    /\ UNCHANGED <<snapshot, download>>
    /\ phase = "ready"
    /\ pluginId \in DOMAIN installedPlugins
    /\ installedPlugins[pluginId].file \in DOMAIN folders
    /\ ~IsMemoized(importedPlugins, pluginId)
    /\ LET file == installedPlugins[pluginId].file
       IN  /\ evaluations[file] < MaxEvaluations
           /\ evaluations' = [evaluations EXCEPT ![file] = @ + 1]
           /\ globalPluginCache' = BindGlobal(globalPluginCache, pluginId)
           /\ importedPlugins' =
                  MemoizeThrown(importedPlugins, installedPluginsManifests[pluginId],
                                pluginId, file)
           /\ last' = [op |-> "loadPlugin", pluginId |-> pluginId,
                       threw |-> TRUE, entryThrew |-> TRUE,
                       file |-> file, ran |-> evaluations[file] + 1]
    /\ UNCHANGED <<disk, phase, registry, onlinePlugins, pendingFetch, pluginsCache,
                   loaded, cacheJson>>

-----------------------------------------------------------------------------
(* pluginCache: the accessor handed to plugin code *)

CacheKeys == {"k"}

CacheValues == {"x"}

\* the slice an accessor created for `bound` reads: this.pluginsCache[bound] || {}
SliceOf(slices, bound) == IF bound \in DOMAIN slices THEN slices[bound] ELSE EmptyObject

\* The accessor the code of a loaded plugin reaches under the name pluginCache:
\* a sandbox has its own (vm.setGlobal, line 583); a module loaded with
\* require has no global of its own and reads global.pluginCache
AccessorOf(pluginId) ==
    IF loaded[pluginId] = "sandbox" THEN pluginId ELSE globalPluginCache

\* lines 528-532: pluginCache.set(key, value) issued by the code of pluginId
pluginCacheSet(pluginId, key, value) ==
    /\ Tick
    /\ UNCHANGED <<snapshot, download>>
    /\ phase = "ready"
    /\ pluginId \in DOMAIN loaded
    /\ LET bound  == AccessorOf(pluginId)
           slices == Put(pluginsCache, bound,
                         Put(SliceOf(pluginsCache, bound), key, value))
       IN  /\ pluginsCache' = slices
           /\ cacheJson' = File(slices)
           /\ last' = [op |-> "pluginCache.set", pluginId |-> pluginId,
                       slice |-> bound, before |-> pluginsCache]
    /\ UNCHANGED <<disk, phase, registry, importedPlugins, onlinePlugins, pendingFetch,
                   evaluations, globalPluginCache, loaded>>

\* lines 525-527: pluginCache.get(key) issued by the code of pluginId
pluginCacheGet(pluginId, key) ==
    /\ Tick
    /\ UNCHANGED <<snapshot, download>>
    /\ phase = "ready"
    /\ pluginId \in DOMAIN loaded
    /\ LET bound == AccessorOf(pluginId)
           slice == SliceOf(pluginsCache, bound)
       IN  last' = [op |-> "pluginCache.get", pluginId |-> pluginId,
                    slice |-> bound, before |-> pluginsCache,
                    value |-> IF key \in DOMAIN slice THEN slice[key] ELSE Undefined]
    /\ UNCHANGED <<disk, phase, registry, importedPlugins, onlinePlugins, pendingFetch,
                   evaluations, runtimeCache>>

-----------------------------------------------------------------------------
(* _installDefaultPlugins: the preset batch install *)

PresetFile(name, archive) == [name |-> name, archive |-> archive]

\* lines 136-142: a strictly newer preset copies the old version's
\* configuration to the new key
CopyConfigurationForward(configs, installed, plugin) ==
    LET id     == plugin.pluginId
        newKey == VersionedName(id, plugin.version)
        oldKey == VersionedName(id, VersionIn(installed, id))
    IN  IF id \in DOMAIN installed.versions
           /\ compareVersions(plugin.version, installed.versions[id]) = 1
        THEN Put(configs, newKey,
                 IF oldKey \in DOMAIN configs THEN configs[oldKey] ELSE EmptyObject)
        ELSE configs

\* RecordPreset placing the descriptor without its versions entry
RecordPreset_NoVersion(installed, plugin) ==
    LET id == plugin.pluginId
    IN  IF id \notin DOMAIN installed.versions
           \/ compareVersions(plugin.version, installed.versions[id]) # -1
        THEN [plugins  |-> PlaceDescriptor(installed.plugins, plugin),
              versions |-> installed.versions]
        ELSE installed

\* lines 144-156: the preset is recorded unless it is older than the installed one
RecordPreset(installed, plugin) ==
    LET id == plugin.pluginId
    IN  IF id \notin DOMAIN installed.versions
           \/ compareVersions(plugin.version, installed.versions[id]) # -1
        THEN [plugins  |-> PlaceDescriptor(installed.plugins, plugin),
              versions |-> Put(installed.versions, id, plugin.version)]
        ELSE installed

\* lines 109-158: the loop over the archives; acc is the loop's state. An
\* archive without manifest.json makes readFileSync throw out of the loop.
RECURSIVE InstallDefaults(_, _)
InstallDefaults(res, acc) ==
    IF res = <<>> \/ acc.threw THEN acc
    ELSE LET p    == Head(res)
             dirs == ExtractInto(acc.dirs, p.name, p.archive)
         IN  IF ~existsSync(dirs[p.name].manifest)
             THEN [acc EXCEPT !.dirs = dirs, !.threw = TRUE]
             ELSE LET data   == readFileSync(dirs[p.name].manifest)
                      plugin == PluginOf(data)
                  IN  InstallDefaults(Tail(res),
                          [installed |-> RecordPreset(acc.installed, plugin),
                           configs   |-> CopyConfigurationForward(acc.configs,
                                             acc.installed, plugin),
                           dirs      |-> dirs,
                           threw     |-> FALSE])

\* _installDefaultPlugins as a whole: the files and folders afterwards and
\* whether it threw
installDefaultPlugins(removeDefaultPlugins) ==
    IF Len(presetFiles) = 0
    THEN [index |-> indexJson, configuration |-> configurationJson,
          dirs |-> folders, presets |-> presetFiles, threw |-> FALSE]
    ELSE LET configs0 == IF existsSync(configurationJson)
                         THEN readFileSync(configurationJson) ELSE EmptyObject
             installed0 == IF existsSync(indexJson)
                           THEN readFileSync(indexJson) ELSE EmptyCatalog
             index0 == IF existsSync(indexJson) THEN indexJson
                       ELSE File(StringifyCatalog(EmptyCatalog))
             acc == InstallDefaults(presetFiles,
                        [installed |-> installed0, configs |-> configs0,
                         dirs |-> folders, threw |-> FALSE])
         IN  IF acc.threw
             THEN [index |-> index0, configuration |-> configurationJson,
                   dirs |-> acc.dirs, presets |-> presetFiles, threw |-> TRUE]
             ELSE [index |-> File(StringifyCatalog(acc.installed)),
                   configuration |-> File(StringifyConfigurations(acc.configs)),
                   dirs |-> acc.dirs,
                   presets |-> IF removeDefaultPlugins THEN <<>> ELSE presetFiles,
                   threw |-> FALSE]

-----------------------------------------------------------------------------
(* _readLocalPlugins: the load with its reconciliation pass *)

IdsOf(plugins) == {plugins[i].pluginId : i \in 1..Len(plugins)}

\* the ids of a descriptor list in order of first appearance (the key order
\* of the object the forEach of line 204 fills)
RECURSIVE KeysInOrder(_, _)
KeysInOrder(plugins, seen) ==
    IF plugins = <<>> THEN <<>>
    ELSE IF Head(plugins).pluginId \in seen THEN KeysInOrder(Tail(plugins), seen)
    ELSE <<Head(plugins).pluginId>>
         \o KeysInOrder(Tail(plugins), seen \cup {Head(plugins).pluginId})

\* line 212: the versioned folder or its manifest.json does not exist
IsMissing(dirs, plugin) ==
    LET name == VersionedName(plugin.pluginId, plugin.version)
    IN  name \notin DOMAIN dirs \/ ~existsSync(dirs[name].manifest)

\* PruneCatalog without the splice of data.plugins
PruneCatalog_VersionsOnly(data, keys) ==
    [plugins  |-> data.plugins,
     versions |-> [k \in DOMAIN data.versions \ keys |-> data.versions[k]]]

\* lines 220-224 over the pruned keys: data.versions and data.plugins
RECURSIVE PruneCatalog(_, _)
PruneCatalog(data, keys) ==
    IF keys = {} THEN data
    ELSE LET key == CHOOSE k \in keys : TRUE
         IN  PruneCatalog([plugins  |-> RemoveDescriptor(data.plugins, key),
                           versions |-> Delete(data.versions, key)],
                          keys \ {key})

\* line 219 over the pruned descriptors
PruneConfigurations(configs, prunedNames) ==
    [k \in DOMAIN configs \ prunedNames |-> configs[k]]

\* lines 246-251: every key of configuration.json is set in memory
LoadConfigurations(configs, file) ==
    IF existsSync(file)
    THEN LET configurations == readFileSync(file)
         IN  [k \in DOMAIN configs \cup DOMAIN configurations |->
                 IF k \in DOMAIN configurations THEN configurations[k] ELSE configs[k]]
    ELSE configs

\* steps 3 and 4 in the order of the code: the pruning deletes from the
\* in-memory store first, configuration.json is read into it afterwards
ReconcileConfigurations(configs, prunedNames, file) ==
    LoadConfigurations(PruneConfigurations(configs, prunedNames), file)

\* lines 254-259: every key of cache.json is set in the Runtime Cache
LoadCache(slices, file) ==
    IF existsSync(file)
    THEN LET fromFile == readFileSync(file)
         IN  [k \in DOMAIN slices \cup DOMAIN fromFile |->
                 IF k \in DOMAIN fromFile THEN fromFile[k] ELSE slices[k]]
    ELSE slices

\* steps 2 to 4 of _readLocalPlugins on the parsed index.json
readLocalPlugins(data, configurationFile, dirs) ==
    LET ids        == IdsOf(data.plugins)
        installed0 == [id \in DOMAIN installedPlugins \cup ids |->
                          IF id \in ids
                          THEN data.plugins[CHOOSE i \in 1..Len(data.plugins) :
                                   /\ data.plugins[i].pluginId = id
                                   /\ \A j \in 1..Len(data.plugins) :
                                          data.plugins[j].pluginId = id => j <= i]
                          ELSE installedPlugins[id]]
        pruned     == {key \in DOMAIN installed0 : IsMissing(dirs, installed0[key])}
        kept       == DOMAIN installed0 \ pruned
        names      == {VersionedName(key, installed0[key].version) : key \in pruned}
        manifestOf(key) ==
            readFileSync(dirs[VersionedName(installed0[key].pluginId,
                                            installed0[key].version)].manifest)
        order      == SelectSeq(KeysInOrder(data.plugins, {}), LAMBDA key : key \in kept)
    IN  [localPlugins |-> PruneCatalog(data, pruned),
         installedPlugins |-> [key \in kept |-> installed0[key]],
         installedPluginsManifests |->
             [key \in (DOMAIN installedPluginsManifests \ pruned) \cup kept |->
                 IF key \in kept THEN manifestOf(key)
                 ELSE installedPluginsManifests[key]],
         installedPluginsI18ns |->
             [key \in (DOMAIN installedPluginsI18ns \ pruned) \cup kept |->
                 IF key \in kept
                 THEN ReadI18n(dirs, VersionedName(installed0[key].pluginId,
                                                   installed0[key].version))
                 ELSE installedPluginsI18ns[key]],
         pluginProviders |->
             pluginProviders
             \o [i \in 1..Len(order) |->
                    ProviderOf(manifestOf(order[i]), installed0[order[i]])],
         pluginsConfigurations |->
             ReconcileConfigurations(pluginsConfigurations, names, configurationFile),
         pruned |-> pruned]

-----------------------------------------------------------------------------
(* The constructor with _init, and the end of the process *)

\* lines 187-188 with copyFile's first test: the snapshot copy is started
\* when the bundled plugins.json exists; copyFile resolves without copying
\* when the destination exists already
StartCopy(presetFile, destination) ==
    IF ~existsSync(presetFile) THEN NotCopying
    ELSE IF existsSync(destination) THEN "skipped"
    ELSE "copying"

\* new PluginManager({...}): _installDefaultPlugins, then _readLocalPlugins.
\* _init rejects when the batch throws or index.json cannot be read; the
\* rejection is logged and onReady is not called.
construct(removeDefaultPlugins) ==
    /\ Tick
    /\ UNCHANGED <<presetPluginsJson, download>>
    /\ phase = "stopped"
    /\ LET batch == installDefaultPlugins(removeDefaultPlugins)
       IN  /\ indexJson' = batch.index
           /\ configurationJson' = batch.configuration
           /\ folders' = batch.dirs
           /\ presetFiles' = batch.presets
           /\ UNCHANGED pluginsJson
           /\ IF batch.threw
              THEN /\ phase' = "failed"
                   /\ last' = [op |-> "construct", ready |-> FALSE,
                               presets |-> presetFiles]
                   /\ UNCHANGED <<registry, onlinePlugins, pendingFetch, pluginsCache,
                                  pendingCopy>>
              ELSE \* step 1 of _readLocalPlugins: the cached Online Catalog
                   \* is read and the fetch is started
                   /\ pendingCopy' = StartCopy(presetPluginsJson, pluginsJson)
                   /\ onlinePlugins' = IF ~existsSync(presetPluginsJson)
                                          /\ existsSync(pluginsJson)
                                       THEN readFileSync(pluginsJson)
                                       ELSE onlinePlugins
                   /\ pendingFetch' = TRUE
                   /\ IF ~existsSync(batch.index)
                      THEN /\ phase' = "failed"
                           /\ last' = [op |-> "construct", ready |-> FALSE,
                               presets |-> presetFiles]
                           /\ UNCHANGED <<registry, pluginsCache>>
                      ELSE LET r == readLocalPlugins(readFileSync(batch.index),
                                        batch.configuration, batch.dirs)
                           IN  /\ phase' = "ready"
                               /\ localPlugins' = r.localPlugins
                               /\ installedPlugins' = r.installedPlugins
                               /\ installedPluginsManifests' =
                                      r.installedPluginsManifests
                               /\ installedPluginsI18ns' = r.installedPluginsI18ns
                               /\ pluginProviders' = r.pluginProviders
                               /\ pluginsConfigurations' = r.pluginsConfigurations
                               /\ pluginsCache' = LoadCache(pluginsCache, cacheJson)
                               /\ last' = [op |-> "construct", ready |-> TRUE,
                                           presets |-> presetFiles,
                                           pruned |-> r.pruned]
    /\ UNCHANGED <<importedPlugins, evaluations, globalPluginCache, loaded, cacheJson>>

\* the bundled snapshot of the Online Catalog, older than what the server has
SnapshotCatalog ==
    [plugins  |-> <<PluginOf(ManifestOf("q", 1))>>,
     versions |-> VersionsOf(<<PluginOf(ManifestOf("q", 1))>>)]

\* how the startup fetch of this run has settled so far: <<>> while it has not
FetchSoFar ==
    IF last.op = "startupFetch" THEN <<last.outcome>>
    ELSE IF last.op \in {"snapshotCopyWrites", "snapshotCopy", "snapshotCopyFails"}
    THEN last.fetch
    ELSE <<>>

\* copyFile, rs.pipe(ws): the stream writes the snapshot over plugins.json
snapshotCopyWrites ==
    /\ Tick
    /\ UNCHANGED <<presetPluginsJson, download>>
    /\ pendingCopy = "copying"
    /\ pendingCopy' = "written"
    /\ pluginsJson' = presetPluginsJson
    /\ last' = [op |-> "snapshotCopyWrites", fetch |-> FetchSoFar]
    /\ UNCHANGED <<indexJson, configurationJson, folders, presetFiles, phase, registry,
                   importedPlugins, onlinePlugins, pendingFetch, evaluations,
                   runtimeCache>>

\* copyFile, ws.on("error"): reject(false); the .then of line 188 has no
\* rejection handler
snapshotCopyFails ==
    /\ Tick
    /\ UNCHANGED <<presetPluginsJson, download>>
    /\ pendingCopy = "copying"
    /\ pendingCopy' = "failed"
    /\ last' = [op |-> "snapshotCopyFails", fetch |-> FetchSoFar]
    /\ UNCHANGED <<disk, phase, registry, importedPlugins, onlinePlugins,
                   pendingFetch, evaluations, runtimeCache>>

\* lines 188-193: the copy has resolved; onlinePlugins is set from the
\* snapshot, which is removed outside development
snapshotCopySettles(development) ==
    /\ Tick
    /\ UNCHANGED download
    /\ pendingCopy \in {"skipped", "written"}
    /\ pendingCopy' = "settled"
    /\ onlinePlugins' = readFileSync(presetPluginsJson)
    /\ presetPluginsJson' = IF development THEN presetPluginsJson ELSE NoFile
    /\ last' = [op |-> "snapshotCopy", fetch |-> FetchSoFar,
                development |-> development]
    /\ UNCHANGED <<disk, phase, registry, importedPlugins, pendingFetch,
                   evaluations, runtimeCache>>

NoEvaluations == [file \in AllFiles |-> 0]

\* the process ends; the next constructor starts from the field initializers
exit ==
    /\ Tick
    /\ UNCHANGED presetPluginsJson
    /\ pendingCopy' = NotCopying
    /\ installPromise' = NoPromise
    /\ downloading' = <<>>
    /\ phase \in {"ready", "failed"}
    /\ phase' = "stopped"
    /\ localPlugins' = EmptyCatalog
    /\ onlinePlugins' = EmptyCatalog
    /\ installedPlugins' = EmptyObject
    /\ installedPluginsManifests' = EmptyObject
    /\ installedPluginsI18ns' = EmptyObject
    /\ pluginsConfigurations' = EmptyObject
    /\ importedPlugins' = EmptyObject
    /\ pluginProviders' = <<>>
    /\ pendingFetch' = FALSE
    /\ evaluations' = NoEvaluations
    /\ pluginsCache' = EmptyObject
    /\ globalPluginCache' = NotBound
    /\ loaded' = EmptyObject
    /\ last' = [op |-> "exit"]
    /\ UNCHANGED <<disk, cacheJson>>

-----------------------------------------------------------------------------
(* uninstallPlugin when the process stops part-way *)

\* UninstallOrder with the folder removed before the registry is persisted
UninstallOrder_RemoveFirst ==
    <<"manifest.json removed", "folder removed", "index.json", "configuration.json">>

\* lines 391-395: the effects of uninstallPlugin on the disk, in the order the
\* code makes them; removeFolder (fs-extra remove) deletes the files of the
\* folder before the folder itself
UninstallOrder ==
    <<"index.json", "configuration.json", "manifest.json removed", "folder removed">>

\* the effects made when the process stops after `done` of them
EffectsMade(done) == {UninstallOrder[i] : i \in 1..done}

\* fs-extra remove stopped part-way or finished on the folder `name`
RemoveProgress(dirs, name, made) ==
    IF name \notin DOMAIN dirs THEN dirs
    ELSE IF "folder removed" \in made THEN removeFolder(dirs, name)
    ELSE IF "manifest.json removed" \in made
    THEN [dirs EXCEPT ![name].manifest = NoFile]
    ELSE dirs

\* uninstallPlugin of an installed plugin, the process stopping after `done`
\* of its disk effects; the next constructor starts from the field initializers
uninstallPluginStops(pluginId, done) ==
    /\ Tick
    /\ UNCHANGED presetPluginsJson
    /\ pendingCopy' = NotCopying
    /\ installPromise' = NoPromise
    /\ downloading' = <<>>
    /\ phase = "ready"
    /\ findIndex(localPlugins.plugins, pluginId) >= 1
    /\ LET list    == localPlugins.plugins
           index   == findIndex(list, pluginId)
           name    == VersionedName(list[index].pluginId, list[index].version)
           catalog == [plugins  |-> RemoveDescriptor(list, pluginId),
                       versions |-> Delete(localPlugins.versions, pluginId)]
           configs == DeleteConfiguration(pluginsConfigurations, list, pluginId)
           made    == EffectsMade(done)
       IN  /\ indexJson' = IF "index.json" \in made
                           THEN File(StringifyCatalog(catalog)) ELSE indexJson
           /\ configurationJson' = IF "configuration.json" \in made
                                   THEN File(StringifyConfigurations(configs))
                                   ELSE configurationJson
           /\ folders' = RemoveProgress(folders, name, made)
           /\ last' = [op |-> "uninstallPlugin", pluginId |-> pluginId,
                       installed |-> TRUE, version |-> list[index].version,
                       dirs |-> folders, made |-> made,
                       result |-> Stopped, writes |-> made]
    /\ phase' = "stopped"
    /\ localPlugins' = EmptyCatalog
    /\ onlinePlugins' = EmptyCatalog
    /\ installedPlugins' = EmptyObject
    /\ installedPluginsManifests' = EmptyObject
    /\ installedPluginsI18ns' = EmptyObject
    /\ pluginsConfigurations' = EmptyObject
    /\ importedPlugins' = EmptyObject
    /\ pluginProviders' = <<>>
    /\ pendingFetch' = FALSE
    /\ evaluations' = [file \in DOMAIN evaluations |-> 0]
    /\ pluginsCache' = EmptyObject
    /\ globalPluginCache' = NotBound
    /\ loaded' = EmptyObject
    /\ UNCHANGED <<pluginsJson, presetFiles, cacheJson>>

-----------------------------------------------------------------------------
(* The environment, while the application is not running *)

\* a versioned folder is deleted out-of-band
folderDeleted(name) ==
    /\ Tick
    /\ UNCHANGED <<snapshot, download>>
    /\ phase = "stopped"
    /\ name \in DOMAIN folders
    /\ folders' = Delete(folders, name)
    /\ last' = [op |-> "folderDeleted"]
    /\ UNCHANGED <<indexJson, configurationJson, pluginsJson, presetFiles, phase,
                   registry, importedPlugins, onlinePlugins, pendingFetch, evaluations,
                   runtimeCache>>

\* the manifest.json of a folder is deleted out-of-band
manifestDeleted(name) ==
    /\ Tick
    /\ UNCHANGED <<snapshot, download>>
    /\ phase = "stopped"
    /\ name \in DOMAIN folders
    /\ existsSync(folders[name].manifest)
    /\ folders' = [folders EXCEPT ![name].manifest = NoFile]
    /\ last' = [op |-> "manifestDeleted"]
    /\ UNCHANGED <<indexJson, configurationJson, pluginsJson, presetFiles, phase,
                   registry, importedPlugins, onlinePlugins, pendingFetch, evaluations,
                   runtimeCache>>

-----------------------------------------------------------------------------
(* The specification *)

\* the preset folder the application ships with
PresetChoices ==
    { <<>>,
      <<PresetFile(VersionedName("p", 1), Archive("p", 1))>>,
      <<PresetFile(<<"bundle", 0>>, Archive("q", 1)),
        PresetFile(VersionedName("p", MaxVersion), Archive("p", MaxVersion))>>,
      <<PresetFile(VersionedName("q", 1), Archive("q", 1)),
        PresetFile(<<"broken", 0>>, BrokenArchive)>> }

\* the state before the first start, with or without a bundled snapshot
Boot(snapshotFile) ==
    /\ indexJson \in {NoFile, File(StringifyCatalog(EmptyCatalog))}
    /\ configurationJson = NoFile
    /\ pluginsJson = NoFile
    /\ folders = EmptyObject
    /\ presetFiles \in PresetChoices
    /\ phase = "stopped"
    /\ localPlugins = EmptyCatalog
    /\ onlinePlugins = EmptyCatalog
    /\ installedPlugins = EmptyObject
    /\ installedPluginsManifests = EmptyObject
    /\ installedPluginsI18ns = EmptyObject
    /\ pluginsConfigurations = EmptyObject
    /\ importedPlugins = EmptyObject
    /\ pluginProviders = <<>>
    /\ pendingFetch = FALSE
    /\ evaluations = NoEvaluations
    /\ pluginsCache = EmptyObject
    /\ globalPluginCache = NotBound
    /\ loaded = EmptyObject
    /\ cacheJson = NoFile
    /\ presetPluginsJson = snapshotFile
    /\ pendingCopy = NotCopying
    /\ installPromise = NoPromise
    /\ downloading = <<>>
    /\ last = [op |-> "none"]
    /\ steps = 0

Init == Boot(NoFile)

\* the registry's life: start, calls that change the registry, exit, and
\* out-of-band deletions between two runs
NextRegistry ==
    \/ \E removeDefaultPlugins \in BOOLEAN : construct(removeDefaultPlugins)
    \/ exit
    \/ \E archive \in Archives, settingName \in SettingNames, copied \in BOOLEAN :
          installPlugins(archive, settingName, copied)
    \/ \E pluginId \in PluginIds : uninstallPlugin(pluginId)
    \/ \E pluginId \in PluginIds, data \in SavedConfigurations :
          saveConfiguration(pluginId, data)
    \/ \E name \in DOMAIN folders : folderDeleted(name)
    \/ \E name \in DOMAIN folders : manifestDeleted(name)

Spec == Init /\ [][NextRegistry]_vars

\* the Online Catalog: start, the three ways a fetch is made, exit
NextCatalog ==
    \/ \E removeDefaultPlugins \in BOOLEAN : construct(removeDefaultPlugins)
    \/ exit
    \/ \E outcome \in FetchOutcomes : callGetOnlinePlugins(outcome)
    \/ \E outcome \in FetchOutcomes : refreshOnlinePlugins(outcome)
    \/ \E outcome \in FetchOutcomes : startupFetchSettles(outcome)

SpecCatalog == Init /\ [][NextCatalog]_vars

\* a first start with the bundled snapshot of the Online Catalog
InitStartup == Boot(File(StringifyCatalog(SnapshotCatalog)))

\* start-up: the constructor, the snapshot copy and the fetch it starts, exit
NextStartup ==
    \/ \E removeDefaultPlugins \in BOOLEAN : construct(removeDefaultPlugins)
    \/ exit
    \/ \E outcome \in FetchOutcomes : startupFetchSettles(outcome)
    \/ snapshotCopyWrites
    \/ snapshotCopyFails
    \/ \E development \in BOOLEAN : snapshotCopySettles(development)

SpecStartup == InitStartup /\ [][NextStartup]_vars

\* installs from the Online Catalog: start, the fetches that fill the
\* catalog, installOnlinePlugins and its download, exit
NextOnline ==
    \/ \E removeDefaultPlugins \in BOOLEAN : construct(removeDefaultPlugins)
    \/ exit
    \/ \E outcome \in FetchOutcomes : startupFetchSettles(outcome)
    \/ \E outcome \in FetchOutcomes : refreshOnlinePlugins(outcome)
    \/ \E pluginId \in PluginIds : installOnlinePlugins(pluginId)
    \/ \E outcome \in DownloadOutcomes : downloadSettles(outcome)

SpecOnline == Init /\ [][NextOnline]_vars

\* the loader: start, install and uninstall, loadPlugin, exit
NextLoader ==
    \/ \E removeDefaultPlugins \in BOOLEAN : construct(removeDefaultPlugins)
    \/ exit
    \/ \E archive \in Archives : installPlugins(archive, "none", TRUE)
    \/ \E pluginId \in PluginIds : uninstallPlugin(pluginId)
    \/ \E pluginId \in PluginIds : loadPlugin(pluginId)
    \/ \E pluginId \in PluginIds, key \in CacheKeys, value \in CacheValues :
          pluginCacheSet(pluginId, key, value)
    \/ \E pluginId \in PluginIds, key \in CacheKeys : pluginCacheGet(pluginId, key)
    \/ \E pluginId \in PluginIds, data \in SavedConfigurations :
          saveConfiguration(pluginId, data)

SpecLoader == Init /\ [][NextLoader]_vars

\* failing attempts: start, install of valid and invalid archives, uninstall,
\* both with the write of configuration.json succeeding or throwing, an
\* uninstall the process stops in, loadPlugin with an entry script that runs
\* or throws, exit
NextFailure ==
    \/ \E removeDefaultPlugins \in BOOLEAN : construct(removeDefaultPlugins)
    \/ exit
    \/ \E archive \in AttemptedArchives : installPlugins(archive, "full", TRUE)
    \/ \E pluginId \in PluginIds : uninstallPlugin(pluginId)
    \/ \E archive \in Archives : installPluginsWriteThrows(archive, "full")
    \/ \E pluginId \in PluginIds : uninstallPluginWriteThrows(pluginId)
    \/ \E pluginId \in PluginIds, done \in 0..(Len(UninstallOrder) - 1) :
          uninstallPluginStops(pluginId, done)
    \/ \E pluginId \in PluginIds : loadPlugin(pluginId)
    \/ \E pluginId \in PluginIds : loadPluginEntryThrows(pluginId)

SpecFailure == Init /\ [][NextFailure]_vars

-----------------------------------------------------------------------------
(* Claims *)

\* the descriptors of a list that are not pluginId's
Others(list, pluginId) == SelectSeq(list, LAMBDA d : d.pluginId # pluginId)

\* a map restricted to the keys that are not pluginId
Without(f, pluginId) == [k \in DOMAIN f \ {pluginId} |-> f[k]]

\* a Configuration Store restricted to the keys of the other pluginIds
ConfigurationsOfOthers(configs, pluginId) ==
    [k \in {x \in DOMAIN configs : x[1] # pluginId} |-> configs[k]]

\* C1: in every reachable state localPlugins.plugins holds at most one
\* descriptor per pluginId, and an installPlugins of an already-installed
\* pluginId leaves exactly one descriptor of it, the one just installed.
C1_OneDescriptorPerPluginId ==
    /\ \A i, j \in 1..Len(localPlugins.plugins) :
          localPlugins.plugins[i].pluginId = localPlugins.plugins[j].pluginId => i = j
    /\ (last.op = "installPlugins" /\ last.found /\ last.previous # 0)
       => \E i \in 1..Len(localPlugins.plugins) :
             /\ localPlugins.plugins[i].pluginId = last.pluginId
             /\ localPlugins.plugins[i].version = last.version
             /\ \A j \in 1..Len(localPlugins.plugins) :
                   localPlugins.plugins[j].pluginId = last.pluginId => j = i

\* C1 witness: a version of an installed pluginId was installed over another
\* version while a second plugin is installed too
C1_Witness ==
    /\ last.op = "installPlugins" /\ last.found
    /\ last.previous # 0 /\ last.previous # last.version
    /\ Len(localPlugins.plugins) = 2

\* C2: installPlugins with an archive strictly older than the installed
\* version of the same pluginId is a no-op: the catalog's descriptor and
\* versions entry, every configuration entry and the manifest of the pluginId
\* are unchanged, so the installed version never decreases across installs.
C2_OlderInstallIsNoOp ==
    [][(/\ last'.op = "installPlugins" /\ last'.found
        /\ last'.pluginId \in DOMAIN localPlugins.versions
        /\ last'.version < localPlugins.versions[last'.pluginId])
       => (/\ localPlugins' = localPlugins
           /\ pluginsConfigurations' = pluginsConfigurations
           /\ installedPluginsManifests'[last'.pluginId]
                  = installedPluginsManifests[last'.pluginId])]_vars

\* C3: when installPlugins upgrades a configured plugin to a strictly newer
\* version, the configuration under pluginId@newVersion has the keys of the
\* inherited values and of the old version's saved configuration, with the
\* old saved value for every key of the old configuration and the inherited
\* value for the rest.
C3_UpgradeMergesOldOverInherited ==
    (/\ last.op = "installPlugins" /\ last.found
     /\ last.previous # 0 /\ last.version > last.previous
     /\ VersionedName(last.pluginId, last.previous) \in DOMAIN last.before)
    => LET old       == last.before[VersionedName(last.pluginId, last.previous)]
           inherited == InheritConfiguration(
                            installedPluginsManifests[last.pluginId],
                            HostSetting(last.settingName))
           new       == pluginsConfigurations[VersionedName(last.pluginId, last.version)]
       IN  /\ DOMAIN new = DOMAIN inherited \cup DOMAIN old
           /\ \A k \in DOMAIN old : new[k] = old[k]
           /\ \A k \in DOMAIN inherited \ DOMAIN old : new[k] = inherited[k]

\* C3 witness: the spec's example, old {a: "u"} and inherited {a: "h", b: "n"}
\* give {a: "u", b: "n"}
C3_Witness ==
    /\ last.op = "installPlugins" /\ last.found
    /\ last.previous # 0 /\ last.version > last.previous
    /\ VersionedName(last.pluginId, last.previous) \in DOMAIN last.before
    /\ last.before[VersionedName(last.pluginId, last.previous)] = ("a" :> "u")
    /\ last.settingName = "full"
    /\ pluginsConfigurations[VersionedName(last.pluginId, last.version)]
           = (("a" :> "u") @@ ("b" :> "n"))

\* C4: after uninstallPlugin(pluginId) for an installed pluginId, the
\* pluginId has no descriptor in localPlugins.plugins, no entry in
\* localPlugins.versions, installedPlugins, installedPluginsManifests or
\* installedPluginsI18ns, no provider entry, no configuration entry for its
\* installed version, and its versioned folder is deleted; the entries of
\* every other pluginId are unchanged.
C4_UninstallRemovesEverything ==
    [][(last'.op = "uninstallPlugin" /\ last'.pluginId \in DOMAIN installedPlugins)
       => LET id   == last'.pluginId
              name == VersionedName(id, installedPlugins[id].version)
          IN  /\ id \notin IdsOf(localPlugins'.plugins)
              /\ id \notin DOMAIN localPlugins'.versions
              /\ id \notin DOMAIN installedPlugins'
              /\ id \notin DOMAIN installedPluginsManifests'
              /\ id \notin DOMAIN installedPluginsI18ns'
              /\ id \notin IdsOf(pluginProviders')
              /\ name \notin DOMAIN pluginsConfigurations'
              /\ name \notin DOMAIN folders'
              /\ Others(localPlugins'.plugins, id) = Others(localPlugins.plugins, id)
              /\ Without(localPlugins'.versions, id) = Without(localPlugins.versions, id)
              /\ Without(installedPlugins', id) = Without(installedPlugins, id)
              /\ Without(installedPluginsManifests', id)
                     = Without(installedPluginsManifests, id)
              /\ Without(installedPluginsI18ns', id) = Without(installedPluginsI18ns, id)
              /\ Others(pluginProviders', id) = Others(pluginProviders, id)
              /\ ConfigurationsOfOthers(pluginsConfigurations', id)
                     = ConfigurationsOfOthers(pluginsConfigurations, id)]_vars

\* C4 witness: an installed, configured plugin was uninstalled while another
\* configured plugin stays installed
C4_Witness ==
    /\ last.op = "uninstallPlugin" /\ last.installed
    /\ Len(localPlugins.plugins) = 1
    /\ Len(pluginProviders) = 1
    /\ DOMAIN pluginsConfigurations # {}

\* C5: uninstallPlugin with a pluginId that is not installed leaves the whole
\* in-memory registry (catalog, versions, installed descriptors, manifests,
\* localization, providers, configurations) unchanged and returns it.
C5_UnknownUninstallKeepsRegistry ==
    [][(last'.op = "uninstallPlugin" /\ last'.pluginId \notin DOMAIN installedPlugins)
       => (/\ localPlugins' = localPlugins
           /\ installedPlugins' = installedPlugins
           /\ installedPluginsManifests' = installedPluginsManifests
           /\ installedPluginsI18ns' = installedPluginsI18ns
           /\ pluginProviders' = pluginProviders
           /\ pluginsConfigurations' = pluginsConfigurations
           /\ last'.result = Snapshot)]_vars

\* C5 witness: an uninstallPlugin of a pluginId that is not installed
\* returned while another plugin is installed and configured
C5_Witness ==
    /\ last.op = "uninstallPlugin" /\ ~last.installed
    /\ Len(localPlugins.plugins) >= 1
    /\ Len(pluginProviders) >= 1
    /\ DOMAIN pluginsConfigurations # {}

\* C6: uninstallPlugin with a pluginId that is not installed writes neither
\* index.json nor configuration.json.
C6_UnknownUninstallWritesNothing ==
    (last.op = "uninstallPlugin" /\ ~last.installed) => last.writes = {}

\* C7: loadPlugin of a sandbox-mode plugin is memoized: its entry script is
\* evaluated once per process and every call returns the handle of that one
\* evaluation.
C7_SandboxLoadIsMemoized ==
    (last.op = "loadPlugin" /\ ~last.threw /\ last.importType = "sandbox")
    => /\ last.handle.instance = 1
       /\ evaluations[last.handle.file] = 1

\* C8: when the catalog fetch fails (a rejected request or a response that is
\* no successful catalog), getOnlinePlugins / refreshOnlinePlugins does not
\* reject: it returns the content of the cached plugins.json when the file
\* exists and the empty catalog otherwise, and leaves plugins.json as it was.
C8_FetchFailureFallsBack ==
    (last.op \in {"getOnlinePlugins", "refreshOnlinePlugins"} /\ last.outcome # "ok")
    => /\ ~last.rejected
       /\ last.value = IF existsSync(last.cache) THEN readFileSync(last.cache)
                       ELSE EmptyCatalog
       /\ pluginsJson = last.cache

\* a descriptor of index.json whose versioned folder or manifest.json is missing
MissingOnDisk(d) ==
    LET name == VersionedName(d.pluginId, d.version)
    IN  name \notin DOMAIN folders \/ folders[name].manifest = NoFile

\* C9: after _readLocalPlugins, every descriptor recorded in index.json whose
\* versioned folder or manifest.json is missing is absent from
\* localPlugins.plugins, localPlugins.versions, installedPlugins,
\* installedPluginsManifests, installedPluginsI18ns and pluginProviders, and
\* every descriptor whose folder and manifest exist is kept. (The load leaves
\* index.json and the folders as it read them.)
C9_ReconciliationPrunesMissing ==
    (last.op = "construct" /\ last.ready)
    => LET recorded == readFileSync(indexJson).plugins
       IN  \A i \in 1..Len(recorded) :
              LET d == recorded[i]
              IN  IF MissingOnDisk(d)
                  THEN /\ d.pluginId \notin IdsOf(localPlugins.plugins)
                       /\ d.pluginId \notin DOMAIN localPlugins.versions
                       /\ d.pluginId \notin DOMAIN installedPlugins
                       /\ d.pluginId \notin DOMAIN installedPluginsManifests
                       /\ d.pluginId \notin DOMAIN installedPluginsI18ns
                       /\ d.pluginId \notin IdsOf(pluginProviders)
                  ELSE /\ \E j \in 1..Len(localPlugins.plugins) :
                             localPlugins.plugins[j] = d
                       /\ d.pluginId \in DOMAIN localPlugins.versions
                       /\ localPlugins.versions[d.pluginId] = d.version
                       /\ d.pluginId \in DOMAIN installedPlugins
                       /\ installedPlugins[d.pluginId] = d
                       /\ d.pluginId \in DOMAIN installedPluginsManifests
                       /\ d.pluginId \in DOMAIN installedPluginsI18ns
                       /\ d.pluginId \in IdsOf(pluginProviders)

\* C9 witness: a load that pruned one recorded descriptor and kept another
C9_Witness ==
    /\ last.op = "construct" /\ last.ready
    /\ \E i, j \in 1..Len(readFileSync(indexJson).plugins) :
          /\ MissingOnDisk(readFileSync(indexJson).plugins[i])
          /\ ~MissingOnDisk(readFileSync(indexJson).plugins[j])
          /\ readFileSync(indexJson).plugins[j].pluginId \in DOMAIN installedPlugins

\* C10: after _readLocalPlugins, pluginsConfigurations has no entry
\* pluginId@version for a descriptor pruned because its folder or manifest
\* was missing, even when configuration.json still holds that key.
C10_PrunedConfigurationDropped ==
    (last.op = "construct" /\ last.ready)
    => LET recorded == readFileSync(indexJson).plugins
       IN  \A i \in 1..Len(recorded) :
              MissingOnDisk(recorded[i])
              => VersionedName(recorded[i].pluginId, recorded[i].version)
                     \notin DOMAIN pluginsConfigurations

\* C11: when the reconciliation pass of _readLocalPlugins prunes at least one
\* descriptor, index.json is rewritten: once the load completes the file
\* equals the pruned in-memory catalog and names no pruned pluginId.
C11_PruningRewritesIndex ==
    (last.op = "construct" /\ last.ready /\ last.pruned # {})
    => /\ readFileSync(indexJson) = StringifyCatalog(localPlugins)
       /\ \A id \in last.pruned :
             /\ id \notin IdsOf(readFileSync(indexJson).plugins)
             /\ id \notin DOMAIN readFileSync(indexJson).versions

\* C12: in the preset batch of _installDefaultPlugins each archive is
\* processed independently: when one archive of the batch has no readable
\* manifest, every other archive is still processed and its catalog change is
\* in the index.json and configuration.json written at the end of the batch
\* (its pluginId is recorded with at least the archive's version).
C12_BatchArchivesIndependent ==
    (last.op = "construct")
    => \A i \in 1..Len(last.presets) :
          LET archive == last.presets[i].archive
          IN  existsSync(archive.manifest)
              => LET data == readFileSync(archive.manifest)
                 IN  /\ existsSync(indexJson)
                     /\ existsSync(configurationJson)
                     /\ data.pluginId \in DOMAIN readFileSync(indexJson).versions
                     /\ readFileSync(indexJson).versions[data.pluginId] >= data.version
                     /\ data.pluginId \in IdsOf(readFileSync(indexJson).plugins)

\* C13: an installPlugins attempt whose archive has no manifest.json, or
\* whose manifest lacks pluginId or version, mutates nothing: localPlugins,
\* installedPlugins, the manifests, the localization bundles, the providers
\* and the configurations, and the files index.json and configuration.json,
\* are exactly as before the call.
C13_InvalidArchiveMutatesNothing ==
    [][(/\ last'.op = "installPlugins"
        /\ (~last'.found \/ last'.pluginId = Undefined))
       => (/\ localPlugins' = localPlugins
           /\ installedPlugins' = installedPlugins
           /\ installedPluginsManifests' = installedPluginsManifests
           /\ installedPluginsI18ns' = installedPluginsI18ns
           /\ pluginProviders' = pluginProviders
           /\ pluginsConfigurations' = pluginsConfigurations
           /\ indexJson' = indexJson
           /\ configurationJson' = configurationJson)]_vars

\* C14: persisted state is all-or-nothing per operation: when an
\* installPlugins or uninstallPlugin call fails at any step, index.json and
\* configuration.json both hold their pre-call contents (no state has
\* index.json reflecting the operation and configuration.json not).
C14_FailedCallLeavesFilesAsBefore ==
    (last.op \in {"installPlugins", "uninstallPlugin"} /\ last.result = Rejected)
    => /\ indexJson = last.files.index
       /\ configurationJson = last.files.configuration

\* C15: after any sequence of load, install and uninstall operations,
\* pluginProviders holds exactly one entry per installed plugin, and that
\* entry is the provider of the plugin's currently installed manifest
\* annotated with its pluginId and type.
C15_ProvidersMatchManifests ==
    (phase = "ready")
    => /\ Len(pluginProviders) = Cardinality(DOMAIN installedPlugins)
       /\ \A id \in DOMAIN installedPlugins :
             \E i \in 1..Len(pluginProviders) :
                /\ pluginProviders[i]
                       = ProviderOf(installedPluginsManifests[id], installedPlugins[id])
                /\ \A j \in 1..Len(pluginProviders) :
                      pluginProviders[j].pluginId = id => j = i

\* C16: the pluginCache accessor of each loaded plugin is bound to that
\* plugin's own slice of the Runtime Cache: under any interleaving of
\* loadPlugin calls and cache operations, a get or set issued by the code of
\* plugin A reads and writes pluginsCache[A] only, and a set leaves the slice
\* of every other plugin as it was.
C16_CacheAccessorBoundToOwnSlice ==
    (last.op \in {"pluginCache.set", "pluginCache.get"})
    => /\ last.slice = last.pluginId
       /\ Without(pluginsCache, last.pluginId) = Without(last.before, last.pluginId)

\* C17: configuration entries of a plugin live until uninstall and no
\* longer: an installPlugins upgrade keeps the entry under the old
\* pluginId@oldVersion key, and after uninstallPlugin(pluginId) of an
\* installed plugin no entry pluginId@v remains for any version v, versions
\* superseded by earlier upgrades included.
C17_ConfigurationLivesUntilUninstall ==
    /\ (/\ last.op = "installPlugins" /\ last.found
        /\ last.previous # 0 /\ last.version > last.previous
        /\ VersionedName(last.pluginId, last.previous) \in DOMAIN last.before)
       => /\ VersionedName(last.pluginId, last.previous) \in DOMAIN pluginsConfigurations
          /\ pluginsConfigurations[VersionedName(last.pluginId, last.previous)]
                 = last.before[VersionedName(last.pluginId, last.previous)]
    /\ (last.op = "uninstallPlugin" /\ last.installed)
       => \A key \in DOMAIN pluginsConfigurations : key[1] # last.pluginId

\* C18: saveConfiguration(pluginId, config) for a pluginId that is not
\* installed is a no-op: no configuration entry is created or changed,
\* configuration.json is not written, the catalog is as before and the
\* current registry snapshot is returned.
C18_UnknownSaveIsNoOp ==
    [][(last'.op = "saveConfiguration" /\ last'.pluginId \notin DOMAIN installedPlugins)
       => (/\ pluginsConfigurations' = pluginsConfigurations
           /\ configurationJson' = configurationJson
           /\ last'.writes = {}
           /\ localPlugins' = localPlugins
           /\ indexJson' = indexJson
           /\ last'.result = Snapshot)]_vars

\* C18 witness: a saveConfiguration for a pluginId that is not installed
\* returned while another plugin is installed and has a configuration entry
C18_Witness ==
    /\ last.op = "saveConfiguration" /\ ~last.installed
    /\ DOMAIN installedPlugins # {}
    /\ DOMAIN pluginsConfigurations # {}
    /\ existsSync(configurationJson)

C20_SameVersionKeepsConfiguration ==
    (/\ last.op = "installPlugins" /\ last.found
     /\ last.previous = last.version
     /\ VersionedName(last.pluginId, last.version) \in DOMAIN last.before)
    => StringifyObject(pluginsConfigurations[VersionedName(last.pluginId, last.version)])
           = StringifyObject(last.before[VersionedName(last.pluginId, last.version)])

\* C21: in uninstallPlugin the writes of index.json and configuration.json
\* precede the deletion of the versioned directory: when the process stops
\* at any point of an uninstall, a directory that this uninstall deleted (or
\* began to delete) belongs to a plugin index.json no longer lists.
C21_RegistryPersistedBeforeDeletion ==
    (last.op = "uninstallPlugin" /\ last.result = Stopped)
    => LET name == VersionedName(last.pluginId, last.version)
           deletedByCall ==
               /\ name \in DOMAIN last.dirs
               /\ \/ name \notin DOMAIN folders
                  \/ folders[name] # last.dirs[name]
       IN  deletedByCall
           => /\ last.pluginId \notin IdsOf(readFileSync(indexJson).plugins)
              /\ last.pluginId \notin DOMAIN readFileSync(indexJson).versions
              /\ name \notin DOMAIN readFileSync(configurationJson)

\* C21 witness: the process stopped while removeFolder had deleted the
\* manifest but not yet the folder of the uninstalled plugin
C21_Witness ==
    /\ last.op = "uninstallPlugin" /\ last.result = Stopped
    /\ VersionedName(last.pluginId, last.version) \in DOMAIN folders
    /\ existsSync(last.dirs[VersionedName(last.pluginId, last.version)].manifest)
    /\ ~existsSync(folders[VersionedName(last.pluginId, last.version)].manifest)

\* C22: a plugin whose entry code throws during its evaluation makes
\* loadPlugin raise to the caller and is not memoized: importedPlugins gets
\* no entry for the pluginId, and the loadPlugin that follows evaluates the
\* entry code again instead of returning a cached handle.
C22_ThrowingEntryIsNotMemoized ==
    [][/\ (last'.op = "loadPlugin" /\ last'.entryThrew)
          => /\ last'.threw
             /\ importedPlugins' = importedPlugins
             /\ last'.pluginId \notin DOMAIN importedPlugins'
       /\ (/\ last.op = "loadPlugin" /\ last.entryThrew
           /\ last'.op = "loadPlugin" /\ last'.pluginId = last.pluginId
           /\ ~last'.threw)
          => /\ last'.evaluated
             /\ last'.handle = Handle(last.file, last.ran + 1)]_vars

\* C22 witness: a loadPlugin that succeeded right after a loadPlugin of the
\* same module-mode plugin whose entry code threw
C22_Witness ==
    /\ last.op = "loadPlugin" /\ ~last.threw /\ last.evaluated
    /\ last.importType = "module"
    /\ last.handle.instance = 2
    /\ last.pluginId \in DOMAIN importedPlugins

\* C23: a successful catalog fetch returns a catalog whose plugins are the
\* fetched list and whose versions map has, for every pluginId of the list,
\* that plugin's version; plugins.json is overwritten with exactly the
\* returned catalog, and after refreshOnlinePlugins the in-memory
\* onlinePlugins equals it.
C23_SuccessfulFetchStoresCatalog ==
    (/\ last.op \in {"getOnlinePlugins", "refreshOnlinePlugins"}
     /\ last.outcome = "ok")
    => /\ ~last.rejected
       /\ last.value.plugins = RemotePlugins
       /\ DOMAIN last.value.versions = IdsOf(RemotePlugins)
       /\ \A i \in 1..Len(RemotePlugins) :
             last.value.versions[RemotePlugins[i].pluginId] = RemotePlugins[i].version
       /\ pluginsJson = File(last.value)
       /\ (last.op = "refreshOnlinePlugins" => onlinePlugins = last.value)

\* C23 witness: a refreshOnlinePlugins that fetched the catalog when no
\* plugins.json existed before
C23_Witness ==
    /\ last.op = "refreshOnlinePlugins" /\ last.outcome = "ok"
    /\ ~existsSync(last.cache)
    /\ existsSync(pluginsJson)
    /\ Len(onlinePlugins.plugins) = Len(RemotePlugins)

\* C24: after every install that records a descriptor, by installPlugins or
\* by the preset batch, the extracted bundle is in the versioned directory
\* pluginId@version under the install root with its manifest.json, whatever
\* the archive's file name is and whether or not the folder copy reports an
\* error (so the next reconciliation pass does not prune the descriptor).
C24_InstalledBundleInVersionedFolder ==
    /\ (last.op = "installPlugins" /\ last.found /\ last.result = Snapshot)
       => /\ VersionedName(last.pluginId, last.version) \in DOMAIN folders
          /\ existsSync(folders[VersionedName(last.pluginId, last.version)].manifest)
    /\ (last.op = "construct" /\ existsSync(indexJson))
       => \A i \in 1..Len(last.presets) :
             LET archive == last.presets[i].archive
             IN  existsSync(archive.manifest)
                 => LET d == PluginOf(readFileSync(archive.manifest))
                    IN  (\E j \in 1..Len(readFileSync(indexJson).plugins) :
                            readFileSync(indexJson).plugins[j] = d)
                        => ~MissingOnDisk(d)

\* C25: at a start with the bundled snapshot, once the snapshot copy has
\* settled and the startup fetch has succeeded, onlinePlugins and plugins.json
\* hold the fetched catalog, in whichever order the two completed
C25_FetchedCatalogWinsOverSnapshot ==
    (/\ phase # "stopped"
     /\ pendingCopy = "settled"
     /\ ~pendingFetch
     /\ FetchSoFar = <<"ok">>)
    => /\ onlinePlugins = getOnlinePlugins("ok", NoFile).value
       /\ pluginsJson = getOnlinePlugins("ok", NoFile).pluginsJson

\* the Configuration Store as configuration.json holds it; no file is the
\* empty store
StoredConfigurations ==
    IF existsSync(configurationJson) THEN readFileSync(configurationJson)
    ELSE EmptyObject

C28_MemoizedHandleIsOfInstalledVersion ==
    /\ \A pluginId \in DOMAIN importedPlugins : pluginId \in DOMAIN installedPlugins
    /\ (last.op = "loadPlugin" /\ ~last.threw)
       => last.handle.file = installedPlugins[last.pluginId].file

\* C29: every construction with a non-empty location invokes onReady: when
\* the constructor's _init has settled, onReady has been called and the
\* manager is ready, whatever index.json and the preset directory hold.
C29_ConstructionInvokesOnReady ==
    last.op = "construct" => last.ready /\ phase = "ready"

\* C30: an installOnlinePlugins call settles: while its promise is pending a
\* download is in flight whose end settles it, and the promise is resolved
\* only when the downloaded archive was installed.
C30_OnlineInstallSettles ==
    /\ installPromise = "pending" => downloading # <<>>
    /\ (installPromise = "resolved" /\ last.op = "installPlugins")
       => last.found /\ last.result = Snapshot

====
